---- MODULE Spec2Model ----
(***************************************************************************)
(* Model of the array-backed binary heap of                                *)
(* src/exercises/algorithm/algorithm9.rs (Heap<T>, MinHeap, MaxHeap), and  *)
(* of the two producers and the consumer of                                *)
(* src/exercises/threads/threads3.rs.  The two programs share nothing:     *)
(* Spec / FairSpec run the heap, SpecThreads / FairSpecThreads run         *)
(* threads3.                                                               *)
(* Indices are the 0-based indices of the Rust code; the TLA+ sequence     *)
(* `items` is 1-based, so the element at code index i is items[i + 1].     *)
(***************************************************************************)
EXTENDS Integers, Sequences, FiniteSets, TLC

\* ------------------------------------------------------------------ bounds
\* Inputs of add in the free exploration are drawn from 1..MaxVal.
MaxVal == 2
\* At most MaxAdds calls of add are explored in the free exploration.
MaxAdds == 5

Values == 1..MaxVal

VARIABLES
    kind,       \* "min" / "max": which comparator the constructor installed
    items,      \* Heap.items
    count,      \* Heap.count
    pc,         \* "idle" | "bubble_up" | "bubble_down" | "panicked"
    parent,     \* local parent_idx of bubble_down / bubble_up
    child,      \* local child_idx of bubble_up
    chosen,     \* result of the last smallest_child_idx call in bubble_down
    top,        \* local `top` of next
    last,       \* the last public operation that returned, with its result
    panic,      \* "none", or the kind of panic the run ended with
    added,      \* history: arguments of the add calls, in call order
    extracted,  \* history: values returned by next as Some, in order
    streak,     \* history: values returned by next since the last add
    mode,       \* "free": any caller; "test": the caller is the unit test
    step,       \* position of the unit test in TestScript
    itemsAtCall, \* history: items when the running add / next was called
    swaps,      \* history: calls of items.swap by the running add / next
    \* ---- threads3.rs
    mpc,            \* position of main
    tpc,            \* position of each producer thread
    pos,            \* per producer: how many values of its half it has sent
    q_lock,         \* holder of the Mutex<Queue>: 0 (free), 1 or 2
    tx_lock,        \* holder of the Mutex<Sender>: 0 (free), 1 or 2
    q_poisoned,     \* a thread panicked while holding the Mutex<Queue>
    tx_poisoned,    \* a thread panicked while holding the Mutex<Sender>
    tx_refs,        \* live Arc handles of the Sender; 0: the Sender is dropped
    channel,        \* values sent and not yet received
    received,       \* history: values main got, in order
    total_received, \* main's counter
    queue_length    \* main's copy of Queue.length

heapVars == <<kind, items, count, pc, parent, child, chosen, top, last, panic,
              added, extracted, streak, mode, step, itemsAtCall, swaps>>

threadVars == <<mpc, tpc, pos, q_lock, tx_lock, q_poisoned, tx_poisoned,
                tx_refs, channel, received, total_received, queue_length>>

vars == <<heapVars, threadVars>>

\* ------------------------------------------------------------ Option<T>
None == [tag |-> "None", val |-> 0]
Some(x) == [tag |-> "Some", val |-> x]
\* outcome of an operator whose Vec index was out of bounds
Oob == [tag |-> "panic", val |-> 0]

\* ------------------------------------------------------------ Vec<T>
At(its, i) == its[i + 1]
InBounds(its, i) == i >= 0 /\ i < Len(its)

\* faulty variant: element j is copied to i, element i is lost
swap_overwrites(its, i, j) == [its EXCEPT ![i + 1] = its[j + 1]]

swap(its, i, j) == [its EXCEPT ![i + 1] = its[j + 1], ![j + 1] = its[i + 1]]

\* faulty variant: the last element is copied over element i, the Vec is not shortened
swap_remove_keeps_len(its, i) == [its EXCEPT ![i + 1] = its[Len(its)]]

\* Vec::swap_remove(i): the last element takes the place of element i.
swap_remove(its, i) ==
    IF i + 1 = Len(its)
    THEN SubSeq(its, 1, Len(its) - 1)
    ELSE [SubSeq(its, 1, Len(its) - 1) EXCEPT ![i + 1] = its[Len(its)]]

\* ------------------------------------------------------------ Heap<T>
\* faulty variant: the max-heap is built with the min-heap's closure
comparator_always_lt(k, a, b) == a < b

comparator(k, a, b) == IF k = "min" THEN a < b ELSE a > b

len(cnt) == cnt

\* faulty variant: the test is inverted
is_empty_inverted(cnt) == len(cnt) # 0

\* faulty variant: off by one
is_empty_off_by_one(cnt) == len(cnt) <= 1

is_empty(cnt) == len(cnt) = 0

\* faulty variant: the parent is the element just before
parent_idx_previous(idx) == idx - 1

parent_idx(idx) == (idx - 1) \div 2

\* faulty variant: the left child is the right child
left_child_idx_is_right(idx) == 2 * idx + 2

left_child_idx(idx) == 2 * idx + 1

\* faulty variant: the right child is the left child
right_child_idx_is_left(idx) == 2 * idx + 1

right_child_idx(idx) == 2 * idx + 2

\* faulty variant: `left <= count` instead of `left < count`
smallest_child_idx_le(its, cnt, k, idx) ==
    LET left == left_child_idx(idx)
        right == right_child_idx(idx)
    IN  IF left <= cnt
        THEN IF right < cnt
             THEN IF ~(InBounds(its, left) /\ InBounds(its, right))
                  THEN Oob
                  ELSE IF comparator(k, At(its, left), At(its, right))
                       THEN Some(left)
                       ELSE Some(right)
             ELSE Some(left)
        ELSE None

\* faulty variant: the left child is chosen unless the right one beats it
smallest_child_idx_tie_left(its, cnt, k, idx) ==
    LET left == left_child_idx(idx)
        right == right_child_idx(idx)
    IN  IF left < cnt
        THEN IF right < cnt
             THEN IF ~(InBounds(its, left) /\ InBounds(its, right))
                  THEN Oob
                  ELSE IF comparator(k, At(its, right), At(its, left))
                       THEN Some(right)
                       ELSE Some(left)
             ELSE Some(left)
        ELSE None

smallest_child_idx(its, cnt, k, idx) ==
    LET left == left_child_idx(idx)
        right == right_child_idx(idx)
    IN  IF left < cnt
        THEN IF right < cnt
             THEN IF ~(InBounds(its, left) /\ InBounds(its, right))
                  THEN Oob
                  ELSE IF comparator(k, At(its, left), At(its, right))
                       THEN Some(left)
                       ELSE Some(right)
             ELSE Some(left)
        ELSE None

\* faulty variant: the arguments of the comparator are exchanged
bubble_up_swaps_reversed(its, k, c, p) == comparator(k, At(its, p), At(its, c))

\* faulty variant: the child also goes above an equal parent
bubble_up_swaps_on_tie(its, k, c, p) == ~comparator(k, At(its, p), At(its, c))

\* the test of bubble_up's `if`: the child goes above its parent
bubble_up_swaps(its, k, c, p) == comparator(k, At(its, c), At(its, p))

\* faulty variant: the arguments of the comparator are exchanged
bubble_down_breaks_reversed(its, k, p, c) == comparator(k, At(its, c), At(its, p))

\* faulty variant: the loop breaks unless the child beats the parent
bubble_down_breaks_on_tie(its, k, p, c) == ~comparator(k, At(its, c), At(its, p))

\* the test of bubble_down's `if`: the loop breaks at this parent
bubble_down_breaks(its, k, p, c) == comparator(k, At(its, p), At(its, c))

\* ------------------------------------------------------------ the callers
\* tests::test_min_heap / tests::test_max_heap: the same calls on both heaps.
TestScript ==
    << [op |-> "add", v |-> 4], [op |-> "add", v |-> 2],
       [op |-> "add", v |-> 9], [op |-> "add", v |-> 11],
       [op |-> "len", v |-> 0],
       [op |-> "next", v |-> 0], [op |-> "next", v |-> 0],
       [op |-> "next", v |-> 0],
       [op |-> "add", v |-> 1],
       [op |-> "next", v |-> 0] >>

\* May the caller call `op` now?
Allowed(op) ==
    IF mode = "free"
    THEN TRUE
    ELSE step <= Len(TestScript) /\ TestScript[step].op = op

\* The arguments the caller may pass to add now.
AddInputs ==
    IF mode = "free"
    THEN IF Len(added) < MaxAdds THEN Values ELSE {}
    ELSE IF step <= Len(TestScript) /\ TestScript[step].op = "add"
         THEN {TestScript[step].v}
         ELSE {}

Result(op, opt, n, b) == [op |-> op, opt |-> opt, n |-> n, b |-> b]

\* ------------------------------------------------------------ threads3.rs
\* faulty variant: the length field disagrees with the two vectors
Queue_new_short ==
    [length |-> 9,
     first_half |-> <<1, 2, 3, 4, 5>>,
     second_half |-> <<6, 7, 8, 9, 10>>]

\* Queue::new
Queue_new ==
    [length |-> 10,
     first_half |-> <<1, 2, 3, 4, 5>>,
     second_half |-> <<6, 7, 8, 9, 10>>]

\* the two threads spawned by send_tx
Threads == {1, 2}

\* the vector the producer t iterates over
Half(t) == IF t = 1 THEN Queue_new.first_half ELSE Queue_new.second_half

\* main up to the call of send_tx: the channel, the queue and the wrapped
\* sender exist, queue_length is read, no thread is spawned
ThreadsInit ==
    /\ mpc = "send_tx"
    /\ tpc = [t \in Threads |-> "unspawned"]
    /\ pos = [t \in Threads |-> 0]
    /\ q_lock = 0
    /\ tx_lock = 0
    /\ q_poisoned = FALSE
    /\ tx_poisoned = FALSE
    /\ tx_refs = 1
    /\ channel = <<>>
    /\ received = <<>>
    /\ total_received = 0
    /\ queue_length = Queue_new.length

\* Heap::new via MinHeap::new / MaxHeap::new / new_min / new_max
Init ==
    /\ ThreadsInit
    /\ kind \in {"min", "max"}
    /\ mode \in {"free", "test"}
    /\ items = <<>>
    /\ count = 0
    /\ pc = "idle"
    /\ parent = 0
    /\ child = 0
    /\ chosen = None
    /\ top = None
    /\ last = Result("new", None, 0, FALSE)
    /\ panic = "none"
    /\ added = <<>>
    /\ extracted = <<>>
    /\ streak = <<>>
    /\ step = 1
    /\ itemsAtCall = <<>>
    /\ swaps = 0

\* A panic unwinds out of the public operation; the heap is not used again.
Panic(why) ==
    /\ pc' = "panicked"
    /\ panic' = why
    /\ UNCHANGED <<itemsAtCall, swaps>>
    /\ UNCHANGED <<kind, items, count, parent, child, chosen, top, last,
                   added, extracted, streak, mode, step>>

\* Heap::len
Len_ ==
    /\ pc = "idle"
    /\ UNCHANGED threadVars
    /\ Allowed("len")
    /\ last' = Result("len", None, len(count), FALSE)
    /\ step' = IF mode = "test" THEN step + 1 ELSE step
    /\ UNCHANGED <<itemsAtCall, swaps>>
    /\ UNCHANGED <<kind, items, count, pc, parent, child, chosen, top, panic,
                   added, extracted, streak, mode>>

\* Heap::is_empty
IsEmpty ==
    /\ pc = "idle"
    /\ UNCHANGED threadVars
    /\ mode = "free"
    /\ last' = Result("is_empty", None, 0, is_empty(count))
    /\ UNCHANGED <<itemsAtCall, swaps>>
    /\ UNCHANGED <<kind, items, count, pc, parent, child, chosen, top, panic,
                   added, extracted, streak, mode, step>>

\* Heap::add up to the call of bubble_up
AddCall ==
    /\ pc = "idle"
    /\ UNCHANGED threadVars
    /\ \E value \in AddInputs :
          /\ items' = Append(items, value)
          /\ count' = count + 1
          /\ child' = count' - 1
          /\ added' = Append(added, value)
    /\ streak' = <<>>
    /\ itemsAtCall' = items
    /\ swaps' = 0
    /\ pc' = "bubble_up"
    /\ UNCHANGED <<kind, parent, chosen, top, last, panic, extracted,
                   mode, step>>

\* one evaluation of the loop condition of bubble_up and of its body; when
\* the loop ends, bubble_up and add return
BubbleUpStep ==
    /\ pc = "bubble_up"
    /\ UNCHANGED threadVars
    /\ IF child > 0
       THEN LET p == parent_idx(child)
            IN  IF ~(InBounds(items, child) /\ InBounds(items, p))
                THEN Panic("index_oob")
                ELSE IF bubble_up_swaps(items, kind, child, p)
                     THEN /\ items' = swap(items, child, p)
                          /\ parent' = p
                          /\ child' = p
                          /\ swaps' = swaps + 1
                          /\ UNCHANGED itemsAtCall
                          /\ UNCHANGED <<kind, count, pc, chosen, top, last,
                                         panic, added, extracted, streak,
                                         mode, step>>
                     ELSE /\ parent' = p
                          /\ pc' = "idle"
                          /\ last' = Result("add", None, 0, FALSE)
                          /\ step' = IF mode = "test" THEN step + 1 ELSE step
                          /\ UNCHANGED <<itemsAtCall, swaps>>
                          /\ UNCHANGED <<kind, items, count, child, chosen,
                                         top, panic, added, extracted,
                                         streak, mode>>
       ELSE /\ pc' = "idle"
            /\ last' = Result("add", None, 0, FALSE)
            /\ step' = IF mode = "test" THEN step + 1 ELSE step
            /\ UNCHANGED <<itemsAtCall, swaps>>
            /\ UNCHANGED <<kind, items, count, parent, child, chosen, top,
                           panic, added, extracted, streak, mode>>

\* faulty variant: next forgets `self.count -= 1`
NextCall_keeps_count ==
    /\ pc = "idle"
    /\ UNCHANGED threadVars
    /\ Allowed("next")
    /\ IF is_empty(count)
       THEN /\ last' = Result("next", None, 0, FALSE)
            /\ step' = IF mode = "test" THEN step + 1 ELSE step
            /\ UNCHANGED <<itemsAtCall, swaps>>
            /\ UNCHANGED <<kind, items, count, pc, parent, child, chosen,
                           top, panic, added, extracted, streak, mode>>
       ELSE IF ~InBounds(items, 0)
            THEN Panic("swap_remove_empty")
            ELSE /\ top' = Some(At(items, 0))
                 /\ items' = swap_remove(items, 0)
                 /\ parent' = 0
                 /\ itemsAtCall' = items
                 /\ swaps' = 0
                 /\ pc' = "bubble_down"
                 /\ UNCHANGED <<kind, count, child, chosen, last, panic,
                                added, extracted, streak, mode, step>>

\* Iterator::next up to the call of bubble_down (or its return of None)
NextCall ==
    /\ pc = "idle"
    /\ UNCHANGED threadVars
    /\ Allowed("next")
    /\ IF is_empty(count)
       THEN /\ last' = Result("next", None, 0, FALSE)
            /\ step' = IF mode = "test" THEN step + 1 ELSE step
            /\ UNCHANGED <<itemsAtCall, swaps>>
            /\ UNCHANGED <<kind, items, count, pc, parent, child, chosen,
                           top, panic, added, extracted, streak, mode>>
       ELSE IF ~InBounds(items, 0)
            THEN Panic("swap_remove_empty")
            ELSE IF count = 0
                 THEN Panic("sub_underflow")
                 ELSE /\ top' = Some(At(items, 0))
                      /\ items' = swap_remove(items, 0)
                      /\ count' = count - 1
                      /\ parent' = 0
                      /\ itemsAtCall' = items
                      /\ swaps' = 0
                      /\ pc' = "bubble_down"
                      /\ UNCHANGED <<kind, child, chosen, last, panic,
                                     added, extracted, streak, mode, step>>

\* one evaluation of the loop condition of bubble_down and of its body; when
\* the loop ends, bubble_down returns and next returns Some(top)
BubbleDownStep ==
    /\ pc = "bubble_down"
    /\ UNCHANGED threadVars
    /\ LET c == smallest_child_idx(items, count, kind, parent)
       IN  IF c = Oob
           THEN Panic("index_oob")
           ELSE IF c = None
                THEN /\ chosen' = c
                     /\ pc' = "idle"
                     /\ last' = Result("next", top, 0, FALSE)
                     /\ extracted' = Append(extracted, top.val)
                     /\ streak' = Append(streak, top.val)
                     /\ step' = IF mode = "test" THEN step + 1 ELSE step
                     /\ UNCHANGED <<itemsAtCall, swaps>>
                     /\ UNCHANGED <<kind, items, count, parent, child, top,
                                    panic, added, mode>>
                ELSE IF ~(InBounds(items, parent) /\ InBounds(items, c.val))
                     THEN Panic("index_oob")
                     ELSE IF bubble_down_breaks(items, kind, parent, c.val)
                          THEN /\ chosen' = c
                               /\ pc' = "idle"
                               /\ last' = Result("next", top, 0, FALSE)
                               /\ extracted' = Append(extracted, top.val)
                               /\ streak' = Append(streak, top.val)
                               /\ step' = IF mode = "test" THEN step + 1
                                          ELSE step
                               /\ UNCHANGED <<itemsAtCall, swaps>>
                               /\ UNCHANGED <<kind, items, count, parent,
                                              child, top, panic, added, mode>>
                          ELSE /\ chosen' = c
                               /\ items' = swap(items, parent, c.val)
                               /\ parent' = c.val
                               /\ swaps' = swaps + 1
                               /\ UNCHANGED itemsAtCall
                               /\ UNCHANGED <<kind, count, pc, child, top,
                                              last, panic, added, extracted,
                                              streak, mode, step>>

Next ==
    \/ Len_
    \/ IsEmpty
    \/ AddCall
    \/ BubbleUpStep
    \/ NextCall
    \/ BubbleDownStep

Spec == Init /\ [][Next]_vars

\* add and next are plain function calls: a loop that can take its next
\* iteration takes it
FairSpec == Spec /\ WF_vars(BubbleUpStep) /\ WF_vars(BubbleDownStep)

\* ------------------------------------------------------------ threads3.rs
\* the heap is not used by threads3
HeapUnused ==
    /\ kind = "min"
    /\ mode = "free"
    /\ items = <<>>
    /\ count = 0
    /\ pc = "idle"
    /\ parent = 0
    /\ child = 0
    /\ chosen = None
    /\ top = None
    /\ last = Result("new", None, 0, FALSE)
    /\ panic = "none"
    /\ added = <<>>
    /\ extracted = <<>>
    /\ streak = <<>>
    /\ step = 1
    /\ itemsAtCall = <<>>
    /\ swaps = 0

InitThreads == HeapUnused /\ ThreadsInit

\* the Receiver lives until main's `for received in rx` loop has ended
RxAlive == mpc \in {"send_tx", "spawn1", "spawn2", "return", "recv"}

\* send_tx: the four Arc::clone calls
SendTxClone ==
    /\ mpc = "send_tx"
    /\ tx_refs' = tx_refs + 2
    /\ mpc' = "spawn1"
    /\ UNCHANGED <<tpc, pos, q_lock, tx_lock, q_poisoned, tx_poisoned,
                   channel, received, total_received, queue_length>>
    /\ UNCHANGED heapVars

\* send_tx: the first thread::spawn
Spawn1 ==
    /\ mpc = "spawn1"
    /\ tpc' = [tpc EXCEPT ![1] = "lock_q"]
    /\ mpc' = "spawn2"
    /\ UNCHANGED <<pos, q_lock, tx_lock, q_poisoned, tx_poisoned, tx_refs,
                   channel, received, total_received, queue_length>>
    /\ UNCHANGED heapVars

\* send_tx: the second thread::spawn
Spawn2 ==
    /\ mpc = "spawn2"
    /\ tpc' = [tpc EXCEPT ![2] = "lock_q"]
    /\ mpc' = "return"
    /\ UNCHANGED <<pos, q_lock, tx_lock, q_poisoned, tx_poisoned, tx_refs,
                   channel, received, total_received, queue_length>>
    /\ UNCHANGED heapVars

\* faulty variant: the caller's handle of the sender outlives send_tx
SendTxReturn_keeps_tx ==
    /\ mpc = "return"
    /\ mpc' = "recv"
    /\ UNCHANGED <<tpc, pos, q_lock, tx_lock, q_poisoned, tx_poisoned,
                   tx_refs, channel, received, total_received, queue_length>>
    /\ UNCHANGED heapVars

\* send_tx returns: its parameters q and tx are dropped
SendTxReturn ==
    /\ mpc = "return"
    /\ tx_refs' = tx_refs - 1
    /\ mpc' = "recv"
    /\ UNCHANGED <<tpc, pos, q_lock, tx_lock, q_poisoned, tx_poisoned,
                   channel, received, total_received, queue_length>>
    /\ UNCHANGED heapVars

\* one iteration of `for received in rx`, or its end when the channel is
\* empty and every Sender is dropped; it blocks while the channel is empty
\* and a Sender lives
Recv ==
    /\ mpc = "recv"
    /\ IF channel # <<>>
       THEN /\ received' = Append(received, Head(channel))
            /\ channel' = Tail(channel)
            /\ total_received' = total_received + 1
            /\ UNCHANGED mpc
       ELSE /\ tx_refs = 0
            /\ mpc' = "assert"
            /\ UNCHANGED <<channel, received, total_received>>
    /\ UNCHANGED <<tpc, pos, q_lock, tx_lock, q_poisoned, tx_poisoned,
                   tx_refs, queue_length>>
    /\ UNCHANGED heapVars

\* assert_eq!(total_received, queue_length)
AssertEq ==
    /\ mpc = "assert"
    /\ mpc' = IF total_received = queue_length THEN "done"
              ELSE "assert_failed"
    /\ UNCHANGED <<tpc, pos, q_lock, tx_lock, q_poisoned, tx_poisoned,
                   tx_refs, channel, received, total_received, queue_length>>
    /\ UNCHANGED heapVars

\* unwrap() panics in producer t: unwinding drops its guards, which poisons
\* the mutexes it holds, and its Arc handles
ThreadPanic(t) ==
    /\ tpc' = [tpc EXCEPT ![t] = "panicked"]
    /\ q_lock' = IF q_lock = t THEN 0 ELSE q_lock
    /\ q_poisoned' = (q_poisoned \/ q_lock = t)
    /\ tx_lock' = IF tx_lock = t THEN 0 ELSE tx_lock
    /\ tx_poisoned' = (tx_poisoned \/ tx_lock = t)
    /\ tx_refs' = tx_refs - 1
    /\ UNCHANGED <<mpc, pos, channel, received, total_received,
                   queue_length>>

\* faulty variant: the producer does not wait for the Mutex<Queue>
LockQueue_no_wait(t) ==
    /\ tpc[t] = "lock_q"
    /\ IF q_poisoned
       THEN ThreadPanic(t)
       ELSE /\ q_lock' = t
            /\ pos' = [pos EXCEPT ![t] = 0]
            /\ tpc' = [tpc EXCEPT ![t] = "for"]
            /\ UNCHANGED <<mpc, tx_lock, q_poisoned, tx_poisoned, tx_refs,
                           channel, received, total_received, queue_length>>
    /\ UNCHANGED heapVars

\* let q = qc.lock().unwrap()
LockQueue(t) ==
    /\ tpc[t] = "lock_q"
    /\ q_lock = 0
    /\ IF q_poisoned
       THEN ThreadPanic(t)
       ELSE /\ q_lock' = t
            /\ pos' = [pos EXCEPT ![t] = 0]
            /\ tpc' = [tpc EXCEPT ![t] = "for"]
            /\ UNCHANGED <<mpc, tx_lock, q_poisoned, tx_poisoned, tx_refs,
                           channel, received, total_received, queue_length>>
    /\ UNCHANGED heapVars

\* `for val in &q.half`: the next value, or the end of the loop
ForNext(t) ==
    /\ tpc[t] = "for"
    /\ tpc' = [tpc EXCEPT ![t] = IF pos[t] < Len(Half(t)) THEN "lock_tx"
                                 ELSE "unlock_q"]
    /\ UNCHANGED <<mpc, pos, q_lock, tx_lock, q_poisoned, tx_poisoned,
                   tx_refs, channel, received, total_received, queue_length>>
    /\ UNCHANGED heapVars

\* let tx = tx.lock().unwrap()
LockTx(t) ==
    /\ tpc[t] = "lock_tx"
    /\ tx_lock = 0
    /\ IF tx_poisoned
       THEN ThreadPanic(t)
       ELSE /\ tx_lock' = t
            /\ tpc' = [tpc EXCEPT ![t] = "send"]
            /\ UNCHANGED <<mpc, pos, q_lock, q_poisoned, tx_poisoned,
                           tx_refs, channel, received, total_received,
                           queue_length>>
    /\ UNCHANGED heapVars

\* tx.send(*val).unwrap(): send fails when the Receiver is dropped
Send(t) ==
    /\ tpc[t] = "send"
    /\ IF ~RxAlive
       THEN ThreadPanic(t)
       ELSE /\ channel' = Append(channel, Half(t)[pos[t] + 1])
            /\ tpc' = [tpc EXCEPT ![t] = "sleep"]
            /\ UNCHANGED <<mpc, pos, q_lock, tx_lock, q_poisoned,
                           tx_poisoned, tx_refs, received, total_received,
                           queue_length>>
    /\ UNCHANGED heapVars

\* thread::sleep ends and so does the iteration: the guard tx is dropped
Sleep(t) ==
    /\ tpc[t] = "sleep"
    /\ tx_lock' = 0
    /\ pos' = [pos EXCEPT ![t] = pos[t] + 1]
    /\ tpc' = [tpc EXCEPT ![t] = "for"]
    /\ UNCHANGED <<mpc, q_lock, q_poisoned, tx_poisoned, tx_refs, channel,
                   received, total_received, queue_length>>
    /\ UNCHANGED heapVars

\* the closure ends: the guard q is dropped
UnlockQueue(t) ==
    /\ tpc[t] = "unlock_q"
    /\ q_lock' = 0
    /\ tpc' = [tpc EXCEPT ![t] = "drop_arcs"]
    /\ UNCHANGED <<mpc, pos, tx_lock, q_poisoned, tx_poisoned, tx_refs,
                   channel, received, total_received, queue_length>>
    /\ UNCHANGED heapVars

\* the closure ends: its captured Arc handles are dropped
DropArcs(t) ==
    /\ tpc[t] = "drop_arcs"
    /\ tx_refs' = tx_refs - 1
    /\ tpc' = [tpc EXCEPT ![t] = "done"]
    /\ UNCHANGED <<mpc, pos, q_lock, tx_lock, q_poisoned, tx_poisoned,
                   channel, received, total_received, queue_length>>
    /\ UNCHANGED heapVars

\* the steps of producer t
Producer(t) ==
    \/ LockQueue(t)
    \/ ForNext(t)
    \/ LockTx(t)
    \/ Send(t)
    \/ Sleep(t)
    \/ UnlockQueue(t)
    \/ DropArcs(t)

\* the steps of main
Main ==
    \/ SendTxClone
    \/ Spawn1
    \/ Spawn2
    \/ SendTxReturn
    \/ Recv
    \/ AssertEq

NextThreads ==
    \/ SendTxClone
    \/ Spawn1
    \/ Spawn2
    \/ SendTxReturn
    \/ Recv
    \/ AssertEq
    \/ \E t \in Threads : LockQueue(t)
    \/ \E t \in Threads : ForNext(t)
    \/ \E t \in Threads : LockTx(t)
    \/ \E t \in Threads : Send(t)
    \/ \E t \in Threads : Sleep(t)
    \/ \E t \in Threads : UnlockQueue(t)
    \/ \E t \in Threads : DropArcs(t)

SpecThreads == InitThreads /\ [][NextThreads]_vars

\* the scheduler runs every thread that can take a step
FairSpecThreads ==
    /\ SpecThreads
    /\ WF_vars(Main)
    /\ \A t \in Threads : WF_vars(Producer(t))

\* ================================================================ properties
\* The ordering relation the heap is meant to realise: a < b for a min-heap,
\* a > b for a max-heap.
Favors(a, b) == IF kind = "min" THEN a < b ELSE a > b
FavorsOrEq(a, b) == IF kind = "min" THEN a <= b ELSE a >= b

\* number of occurrences of v in the sequence s
Occ(s, v) == Cardinality({i \in DOMAIN s : s[i] = v})
RangeOf(s) == {s[i] : i \in DOMAIN s}
SameElements(s, t) == \A v \in RangeOf(s) \cup RangeOf(t) : Occ(s, v) = Occ(t, v)
Ordered(s) == \A i \in 1..(Len(s) - 1) : FavorsOrEq(s[i], s[i + 1])
HasDuplicates(s) == \E i, j \in DOMAIN s : i < j /\ s[i] = s[j]

\* number of elements added and not yet extracted
Live == Len(added) - Len(extracted)
\* a public operation `op` has just returned
Returned(op) == pc = "idle" /\ last.op = op
TestDone == mode = "test" /\ step > Len(TestScript)

\* C1: each successful next() returns the minimum (min-heap) resp. maximum
\* (max-heap) of the elements added and not yet extracted when it was called;
\* the unit tests' extraction sequences are 2,4,9,1 and 11,9,4,2.
C1_NextReturnsExtreme ==
    /\ (Returned("next") /\ last.opt.tag = "Some") =>
          LET v == last.opt.val
              before == SubSeq(extracted, 1, Len(extracted) - 1)
              liveBefore(w) == Occ(added, w) - Occ(before, w)
          IN  /\ liveBefore(v) > 0
              /\ \A w \in RangeOf(added) :
                    liveBefore(w) > 0 => FavorsOrEq(v, w)
    /\ (TestDone /\ pc = "idle") =>
          extracted = IF kind = "min" THEN <<2, 4, 9, 1>>
                                      ELSE <<11, 9, 4, 2>>

C1_Witness ==
    /\ Returned("next") /\ last.opt.tag = "Some"
    /\ mode = "free" /\ count >= 2
    /\ HasDuplicates(items)
    /\ Len(extracted) >= 2
    /\ Len(streak) = 1

C1_WitnessTest == TestDone /\ pc = "idle" /\ kind = "max" /\ last.opt = Some(2)

\* the history is: N adds to the empty heap, then N successful next calls
AddsThenNexts ==
    pc = "idle" /\ Len(added) = Len(extracted) /\ streak = extracted

\* C2: N adds to an empty heap followed by N next calls return the inputs
\* sorted (ascending for min, descending for max), the same multiset, and
\* the call after them returns None.
C2_HeapSort ==
    /\ [](AddsThenNexts => (Ordered(extracted) /\ SameElements(added, extracted)))
    /\ [](Returned("next") /\ last.opt = None => Live = 0)
    /\ [][(AddsThenNexts /\ last' # last /\ last'.op = "next")
            => (last'.opt = None /\ extracted' = extracted)]_vars

C2_Witness ==
    /\ AddsThenNexts
    /\ Len(added) >= 4
    /\ HasDuplicates(added)
    /\ \E i, j \in DOMAIN added : i < j /\ Favors(added[j], added[i])
    /\ last = Result("next", None, 0, FALSE)

\* C3 as stated: once the public operation has returned, comparator(items[p],
\* items[i]) holds for every non-root index i and its parent p = (i-1)/2.
C3_Original ==
    pc = "idle" =>
        \A i \in 1..(Len(items) - 1) :
            Favors(items[((i - 1) \div 2) + 1], items[i + 1])

\* C3 amended: once the public operation has returned, for every non-root
\* index i with parent p = (i-1)/2, comparator(items[p], items[i]) holds or
\* items[p] and items[i] are equal.
C3_HeapOrder ==
    pc = "idle" =>
        \A i \in 1..(Len(items) - 1) :
            \/ Favors(items[((i - 1) \div 2) + 1], items[i + 1])
            \/ items[((i - 1) \div 2) + 1] = items[i + 1]

C3_Witness ==
    /\ Returned("next")
    /\ Len(items) >= 3
    /\ items[1] = items[2]
    /\ items[1] # items[3]
    /\ Len(added) = Len(items) + 1

\* C4: consecutive successful next() calls with no add in between return
\* non-decreasing values (min-heap) resp. non-increasing values (max-heap).
C4_ExtractionOrder == Ordered(streak)

C4_Witness ==
    /\ pc = "idle"
    /\ Len(streak) >= 3
    /\ Len(extracted) > Len(streak)
    /\ count > 0
    /\ streak[1] # streak[Len(streak)]

\* C5: after any sequence of add and next calls len() is the number of add
\* calls minus the number of next calls that returned Some; it is never
\* negative and count -= 1 never underflows.
C5_CountIsAddsMinusNexts ==
    /\ pc = "idle" => (len(count) = Live /\ count >= 0)
    /\ Returned("len") => last.n = Live
    /\ panic # "sub_underflow"

C5_Witness ==
    /\ Returned("len")
    /\ last.n = 2
    /\ Len(added) = 4
    /\ Len(extracted) = 2

\* C6: next() on an empty heap returns None and leaves count and items
\* unchanged, however often it is repeated; None is returned only by an
\* empty heap; the first next() after a single add to an empty heap returns
\* the added element.
C6_EmptyNext ==
    /\ [](Returned("next") /\ last.opt = None
            => (count = 0 /\ items = <<>> /\ Live = 0))
    /\ [][(pc = "idle" /\ Live = 0 /\ last' # last /\ last'.op = "next")
            => (last'.opt = None /\ items' = items /\ count' = count
                /\ pc' = "idle")]_vars
    /\ [][(pc = "idle" /\ last = Result("next", None, 0, FALSE)
            /\ pc' = "idle" /\ last'.op = "next")
            => (last'.opt = None /\ items' = items /\ count' = count)]_vars
    /\ [](Returned("next") /\ last.opt.tag = "Some" /\ Len(streak) = 1
            /\ Live = 0
            => last.opt.val = added[Len(added)])

C6_Witness ==
    /\ last = Result("next", None, 0, FALSE)
    /\ pc = "idle"
    /\ Len(added) >= 2
    /\ Len(streak) = 1
    /\ streak[1] = added[Len(added)]

\* C7: no index used to read or swap items is out of bounds, parent_idx is
\* never evaluated at 0, swap_remove(0) is never called on an empty items;
\* when the last element is extracted bubble_down(0) touches no element.
C7_NoPanic ==
    /\ [](pc # "panicked" /\ panic = "none")
    /\ [](pc = "bubble_up" => (child >= 0 /\ child < Len(items)))
    /\ [](pc = "bubble_down" => (parent = 0 \/ parent < Len(items)))
    /\ [][(pc = "bubble_down" /\ count = 0)
            => (pc' = "idle" /\ items' = items /\ chosen' = None)]_vars

C7_Witness ==
    /\ Returned("next")
    /\ last.opt.tag = "Some"
    /\ count = 0
    /\ Len(added) >= 3
    /\ chosen = None

\* C8: count = items.len() whenever a public operation has returned.
C8_CountIsLen == pc = "idle" => count = Len(items)

C8_Witness ==
    /\ last = Result("next", None, 0, FALSE)
    /\ pc = "idle"
    /\ Len(added) >= 1
    /\ count = 0

\* C9 as stated: in bubble-down the current position is swapped with the
\* chosen child only if comparator(child, current) is true, and the loop
\* stops when comparator(current, child) is true or no child exists.
C9_Original ==
    [][pc = "bubble_down" =>
        /\ pc' = "bubble_down" =>
              /\ chosen'.tag = "Some"
              /\ Favors(At(items, chosen'.val), At(items, parent))
        /\ pc' = "idle" =>
              \/ chosen' = None
              \/ Favors(At(items, parent), At(items, chosen'.val))]_vars

\* C9 amended: in bubble-down the current position is swapped with the
\* chosen child exactly when a child exists and comparator(current, child)
\* is false (the child is favored or the two are equal), and the loop stops
\* when comparator(current, child) is true or no child exists.
C9_BubbleDownSwap ==
    [][pc = "bubble_down" =>
        /\ pc' = "bubble_down" =>
              /\ chosen'.tag = "Some"
              /\ ~Favors(At(items, parent), At(items, chosen'.val))
              /\ items' = swap(items, parent, chosen'.val)
              /\ parent' = chosen'.val
        /\ pc' = "idle" =>
              /\ items' = items
              /\ \/ chosen' = None
                 \/ Favors(At(items, parent), At(items, chosen'.val))]_vars

\* a bubble-down step has just swapped two equal elements
C9_Witness ==
    /\ pc = "bubble_down"
    /\ chosen.tag = "Some"
    /\ parent = chosen.val
    /\ parent > 0
    /\ At(items, parent) = At(items, (parent - 1) \div 2)

\* The child the claim names for position i.
ClaimedChild(i) ==
    IF 2 * i + 1 >= count THEN None
    ELSE IF 2 * i + 2 >= count THEN Some(2 * i + 1)
    ELSE IF Favors(items[2 * i + 2], items[2 * i + 3]) THEN Some(2 * i + 1)
    ELSE Some(2 * i + 2)

\* C10: the child compared against position i in bubble-down is none when
\* 2i+1 >= count (the loop stops), the left child when 2i+2 >= count, else
\* the left child if comparator(left, right) and the right child otherwise.
C10_ChildChoice ==
    [][pc = "bubble_down" =>
        /\ chosen' = ClaimedChild(parent)
        /\ 2 * parent + 1 >= count => pc' = "idle"
        /\ pc' = "bubble_down" => parent' = ClaimedChild(parent).val]_vars

\* the root had two equal children that both beat it: the right one was
\* chosen and swapped with the root
C10_Witness ==
    /\ pc = "bubble_down"
    /\ chosen = Some(2)
    /\ parent = 2
    /\ count >= 3
    /\ At(items, 0) = At(items, 1)
    /\ At(items, 2) # At(items, 0)

\* the loop compared a position with its only child, the left one
C10_WitnessLeftOnly ==
    /\ Returned("next")
    /\ chosen = Some(1)
    /\ count = 2

\* the indices on the path from index i up to the root, i included
RECURSIVE PathToRoot(_)
PathToRoot(i) == IF i = 0 THEN {0} ELSE {i} \cup PathToRoot((i - 1) \div 2)

\* C11: add(value) on a heap of n elements changes items only along the path
\* from the new index n to the root: the value ends at a position k of that
\* path, every element that was on the path between k and n's parent is one
\* level lower on the path, every other element keeps its index, and k is
\* the root or the first position whose parent the value does not strictly
\* beat.
C11_AddFrame ==
    Returned("add") =>
        LET n == Len(itemsAtCall)
            value == added[Len(added)]
            path == PathToRoot(n)
        IN  /\ Len(items) = n + 1
            /\ \E k \in path :
                  /\ At(items, k) = value
                  /\ \A j \in path :
                        j > k =>
                          /\ At(items, j) = At(itemsAtCall, (j - 1) \div 2)
                          /\ Favors(value, At(itemsAtCall, (j - 1) \div 2))
                  /\ \A i \in 0..(n - 1) :
                        (i \notin path \/ i < k) =>
                            At(items, i) = At(itemsAtCall, i)
                  /\ k = 0 \/ ~Favors(value, At(itemsAtCall, (k - 1) \div 2))
                  /\ swaps = Cardinality({j \in path : j > k})

\* the fifth element went up one level and stopped below an equal root
C11_Witness ==
    /\ Returned("add")
    /\ Len(items) = 5
    /\ swaps = 1
    /\ At(items, 1) = added[Len(added)]
    /\ At(items, 4) = At(itemsAtCall, 1)
    /\ At(items, 4) # At(items, 1)
    /\ At(items, 0) = At(items, 1)

RECURSIVE FloorLog2(_)
FloorLog2(n) == IF n <= 1 THEN 0 ELSE 1 + FloorLog2(n \div 2)

\* C12: every add and every next terminates; add on a heap that then holds
\* n elements swaps at most floor(log2(n)) times, next on a heap left with
\* m elements swaps at most floor(log2(m)) times (0 times when m <= 1).
C12_TerminatesInLogSwaps ==
    /\ []((pc = "bubble_up" \/ Returned("add"))
            => swaps <= FloorLog2(Len(items)))
    /\ []((pc = "bubble_down" \/ (Returned("next") /\ last.opt.tag = "Some"))
            => (swaps <= FloorLog2(count) /\ (count <= 1 => swaps = 0)))
    /\ (pc = "bubble_up") ~> Returned("add")
    /\ (pc = "bubble_down") ~> (Returned("next") /\ last.opt.tag = "Some")

\* a next that left four elements and made the largest number of swaps
C12_Witness ==
    /\ Returned("next")
    /\ last.opt.tag = "Some"
    /\ count = 4
    /\ swaps = 2
    /\ Len(added) = 5

\* C13: a new heap is empty; is_empty() is true exactly when len() = 0;
\* after every add the heap is not empty; a successful next() leaves the
\* heap empty exactly when len() was 1 before the call; no other operation
\* changes emptiness.
C13_Emptiness ==
    /\ [](Returned("new") => (count = 0 /\ items = <<>> /\ Live = 0))
    /\ [](Returned("is_empty") => (last.b = (count = 0) /\ last.b = (Live = 0)))
    /\ [](Returned("add") => (count > 0 /\ Live > 0))
    /\ [](Returned("next") /\ last.opt.tag = "Some"
            => ((count = 0) = (Len(itemsAtCall) = 1)))
    /\ [][(pc = "idle" /\ pc' = "idle") => (count = 0) = (count' = 0)]_vars
    /\ [][(count = 0) # (count' = 0)
            => (pc' = "bubble_up" \/ (pc' = "bubble_down" /\ count = 1))]_vars

\* is_empty() answered true on a heap that had been filled and drained
C13_Witness ==
    /\ Returned("is_empty")
    /\ last.b
    /\ Len(added) >= 2
    /\ Len(extracted) = Len(added)

\* C14: with the strict comparators < and >, after every completed add or
\* next no child strictly beats its parent: comparator(items[i],
\* items[(i-1)/2]) is false for every non-root index i; equal keys may sit in
\* a parent/child pair and the extraction order stays correct.
C14_NoChildBeatsParent ==
    (Returned("add") \/ Returned("next")) =>
        /\ \A i \in 1..(Len(items) - 1) :
              ~Favors(At(items, i), At(items, (i - 1) \div 2))
        /\ \A i \in 1..(Len(streak) - 1) : ~Favors(streak[i + 1], streak[i])

\* equal keys in a parent/child pair between two extractions
C14_Witness ==
    /\ Returned("next")
    /\ last.opt.tag = "Some"
    /\ Len(streak) >= 2
    /\ Len(items) >= 3
    /\ At(items, 1) = At(items, 0)
    /\ At(items, 2) # At(items, 0)
    /\ streak[Len(streak)] = At(items, 0)

\* C15: between public operations the multiset of items is the multiset of
\* the added values minus the multiset of the values returned by next; add
\* inserts one occurrence of its argument, a successful next removes one
\* occurrence of the value it returns, the other elements are only permuted,
\* and no placeholder (the Default of i32, 0) is left in items.
C15_Conservation ==
    /\ pc = "idle" =>
          /\ \A v \in RangeOf(added) \cup RangeOf(items) :
                Occ(items, v) = Occ(added, v) - Occ(extracted, v)
          /\ \A i \in DOMAIN items : items[i] # 0
    /\ (pc = "bubble_up" \/ Returned("add")) =>
          SameElements(items, Append(itemsAtCall, added[Len(added)]))
    /\ pc = "bubble_down" =>
          SameElements(Append(items, top.val), itemsAtCall)
    /\ (Returned("next") /\ last.opt.tag = "Some") =>
          SameElements(Append(items, last.opt.val), itemsAtCall)

\* a next that removed one of two equal values and reordered the rest
C15_Witness ==
    /\ Returned("next")
    /\ last.opt.tag = "Some"
    /\ Occ(items, last.opt.val) = 1
    /\ Occ(itemsAtCall, last.opt.val) = 2
    /\ swaps >= 1
    /\ Len(items) >= 3
    /\ Len(extracted) >= 2

\* ------------------------------------------------------------ threads3.rs
\* main's receive loop has ended
LoopEnded == mpc \in {"assert", "done", "assert_failed"}
IsPrefix(s, t) == Len(s) <= Len(t) /\ SubSeq(t, 1, Len(s)) = s

\* C16: under every interleaving, when the receive loop ends
\* total_received = queue_length: exactly 10 messages were received and each
\* value 1..10 exactly once; the assertion does not fail.
C16_AllReceived ==
    /\ LoopEnded =>
          /\ total_received = queue_length
          /\ total_received = 10
          /\ Len(received) = 10
          /\ \A v \in 1..10 : Occ(received, v) = 1
          /\ channel = <<>>
    /\ mpc # "assert_failed"
    /\ \A t \in Threads : tpc[t] # "panicked"

C16_Witness ==
    /\ mpc = "done"
    /\ total_received = 10
    /\ received[1] = 6
    /\ received[10] = 5

\* C17: under fair scheduling threads3 terminates: the queue mutex is taken
\* before the sender mutex by both producers, each producer finishes its
\* loop and drops its Arc of the sender, send_tx drops its handle, the
\* channel closes after the last send and main reaches the final assertion.
C17_Terminates ==
    /\ [](\A t \in Threads : tx_lock = t => q_lock = t)
    /\ <>(\A t \in Threads : tpc[t] = "done")
    /\ <>[](tx_refs = 0)
    /\ [](tx_refs = 0 => Len(received) + Len(channel) = 10)
    /\ <>[](mpc = "done")

C17_Witness ==
    /\ mpc = "done"
    /\ \A t \in Threads : tpc[t] = "done"
    /\ tx_refs = 0
    /\ q_lock = 0
    /\ tx_lock = 0

\* C18: the producers never interleave their sends: the values are sent and
\* received as 1..10 or as 6..10 followed by 1..5, and at most one thread
\* holds the sender mutex at any time.
C18_NoInterleaving ==
    /\ \/ IsPrefix(received \o channel, <<1, 2, 3, 4, 5, 6, 7, 8, 9, 10>>)
       \/ IsPrefix(received \o channel, <<6, 7, 8, 9, 10, 1, 2, 3, 4, 5>>)
    /\ LoopEnded =>
          \/ received = <<1, 2, 3, 4, 5, 6, 7, 8, 9, 10>>
          \/ received = <<6, 7, 8, 9, 10, 1, 2, 3, 4, 5>>
    /\ ~(tpc[1] \in {"send", "sleep"} /\ tpc[2] \in {"send", "sleep"})
    /\ \A t \in Threads : (tx_lock = t) = (tpc[t] \in {"send", "sleep"})

\* the second producer has sent its whole half and the first one is
\* sending while main is still behind
C18_Witness ==
    /\ tpc[2] \in {"drop_arcs", "done"}
    /\ tpc[1] = "sleep"
    /\ tx_lock = 1
    /\ pos[1] = 2
    /\ received = <<6, 7, 8>>
    /\ Len(channel) = 5
====
